---- MODULE Spec2Model ----
(***************************************************************************)
(* Model of src/lab_2/merkle_tree.py: MerkleNode, MerkleTree.__init__,     *)
(* build_tree, get_root_hash, get_proof, verify_proof, get_statistics.     *)
(*                                                                         *)
(* Strings are sequences of symbols.  A symbol is either a character       *)
(* <<c>> or one whole hex digest <<"H", s>>, standing for the 64 hex       *)
(* characters of sha256(s).  A digest is therefore a string of one symbol, *)
(* "+" on strings is \o, and two digests are equal exactly when their      *)
(* preimages are equal: the hash is collision-free.                        *)
(***************************************************************************)
EXTENDS Integers, Sequences, FiniteSets, TLC

\* ---------------------------------------------------------------- bounds
MaxBlocks == 6      \* longest data_blocks list that is constructed

\* ------------------------------------------------------------ the state
VARIABLES
    arg_blocks,   \* the list handed to the constructor
    phase,        \* "new", "built" or "failed" (the constructor raised)
    data_blocks,  \* self.data_blocks
    nodes,        \* the MerkleNode objects the tree owns
    leaves,       \* self.leaves, references into nodes
    root,         \* self.root, a reference into nodes or NoNode
    build_rounds, \* iterations of build_tree's while loop
    op,           \* the last call made
    exception,    \* what the last call raised, "" when it returned
    hashes,       \* sha256 evaluations made by the last call
    proof_index,  \* argument of the last get_proof call
    held_proof,   \* the proof the caller holds, from the last get_proof
    v_data, v_index, v_proof, v_root,   \* arguments of the last verify_proof
    v_valid,      \* its result
    ret_hash,     \* result of the last get_root_hash
    stats         \* what the last get_statistics reported

\* A one-character string.
Str(c) == << <<c>> >>

\* ------------------------------------------------------------- hashing
\* hashlib.sha256(text.encode('utf-8')).hexdigest()
sha256_hex(text) == << <<"H", text>> >>

calculate_hash(data) == sha256_hex(data)

\* Optional values: None is <<>>, a present value v is <<v>>.
None == <<>>
Some(v) == <<v>>

\* Reference to no node (left/right of a leaf, root before build_tree).
NoNode == 0

\* MerkleNode.__init__ hashing the left child alone.
MerkleNode_left_only(heap, data, left, right, is_leaf) ==
    IF is_leaf
    THEN [left |-> left, right |-> right, is_leaf |-> TRUE,
          data |-> Some(data), hash |-> calculate_hash(data)]
    ELSE [left |-> left, right |-> right, is_leaf |-> FALSE,
          data |-> None,
          hash |-> calculate_hash(heap[left].hash)]

\* MerkleNode.__init__; heap holds the nodes made so far, left and right
\* are references into it.
MerkleNode(heap, data, left, right, is_leaf) ==
    IF is_leaf
    THEN [left |-> left, right |-> right, is_leaf |-> TRUE,
          data |-> Some(data), hash |-> calculate_hash(data)]
    ELSE [left |-> left, right |-> right, is_leaf |-> FALSE,
          data |-> None,
          hash |-> calculate_hash(heap[left].hash \o heap[right].hash)]

\* build_tree's for loop promoting a lone trailing node unchanged instead of
\* pairing it with itself.
RECURSIVE build_pairs_promote(_, _, _, _)
build_pairs_promote(heap, current_level, i, next_level) ==
    IF i >= Len(current_level)
    THEN [heap |-> heap, next_level |-> next_level]
    ELSE IF i + 1 < Len(current_level)
    THEN LET parent == MerkleNode(heap, <<>>, current_level[i + 1],
                                  current_level[i + 2], FALSE)
             heap2  == Append(heap, parent)
         IN  build_pairs_promote(heap2, current_level, i + 2,
                                 Append(next_level, Len(heap2)))
    ELSE build_pairs_promote(heap, current_level, i + 2,
                             Append(next_level, current_level[i + 1]))

\* ---------------------------------------------------------- build_tree
\* The for loop of build_tree: i is the (0-based) loop variable.
RECURSIVE build_pairs(_, _, _, _)
build_pairs(heap, current_level, i, next_level) ==
    IF i >= Len(current_level)
    THEN [heap |-> heap, next_level |-> next_level]
    ELSE LET left   == current_level[i + 1]
             right  == IF i + 1 < Len(current_level)
                       THEN current_level[i + 2]
                       ELSE current_level[i + 1]
             parent == MerkleNode(heap, <<>>, left, right, FALSE)
             heap2  == Append(heap, parent)
         IN  build_pairs(heap2, current_level, i + 2,
                         Append(next_level, Len(heap2)))

\* The while loop of build_tree; rounds counts its iterations.
RECURSIVE build_levels(_, _, _)
build_levels(heap, current_level, rounds) ==
    IF Len(current_level) > 1
    THEN LET r == build_pairs(heap, current_level, 0, <<>>)
         IN  build_levels(r.heap, r.next_level, rounds + 1)
    ELSE [heap |-> heap, root |-> current_level[1], rounds |-> rounds]

build_tree(blocks) ==
    LET leafNodes == [k \in 1..Len(blocks) |->
                        MerkleNode(<<>>, blocks[k], NoNode, NoNode, TRUE)]
        leafRefs  == [k \in 1..Len(blocks) |-> k]
        r         == build_levels(leafNodes, leafRefs, 0)
    IN  [nodes |-> r.heap, leaves |-> leafRefs, root |-> r.root,
         rounds |-> r.rounds, hashes |-> Len(r.heap)]

\* ------------------------------------------------------- get_root_hash
get_root_hash(heap, rootRef) ==
    IF rootRef # NoNode THEN Some(heap[rootRef].hash) ELSE None

\* get_proof's for loop with current_index = i // 2 left out of the elif
\* branch.
RECURSIVE proof_pairs_no_halving(_, _, _)
proof_pairs_no_halving(st, current_level, i) ==
    IF i >= Len(current_level)
    THEN st
    ELSE LET left   == current_level[i + 1]
             right  == IF i + 1 < Len(current_level)
                       THEN current_level[i + 2]
                       ELSE current_level[i + 1]
             hit    == IF st.current_index = i THEN "left"
                       ELSE IF st.current_index = i + 1 THEN "right"
                       ELSE "no"
             proof2 == IF hit = "left"
                       THEN Append(st.proof, <<st.heap[right].hash, FALSE>>)
                       ELSE IF hit = "right"
                       THEN Append(st.proof, <<st.heap[left].hash, TRUE>>)
                       ELSE st.proof
             index2 == IF hit = "left" THEN i \div 2 ELSE st.current_index
             parent == MerkleNode(st.heap, <<>>, left, right, FALSE)
             heap2  == Append(st.heap, parent)
         IN  proof_pairs_no_halving(
                 [heap |-> heap2,
                  next_level |-> Append(st.next_level, Len(heap2)),
                  proof |-> proof2,
                  current_index |-> index2],
                 current_level, i + 2)

\* ----------------------------------------------------------- get_proof
\* The for loop of get_proof.  st carries heap, next_level, proof and
\* current_index through the iterations.
RECURSIVE proof_pairs(_, _, _)
proof_pairs(st, current_level, i) ==
    IF i >= Len(current_level)
    THEN st
    ELSE LET left   == current_level[i + 1]
             right  == IF i + 1 < Len(current_level)
                       THEN current_level[i + 2]
                       ELSE current_level[i + 1]
             hit    == IF st.current_index = i THEN "left"
                       ELSE IF st.current_index = i + 1 THEN "right"
                       ELSE "no"
             proof2 == IF hit = "left"
                       THEN Append(st.proof, <<st.heap[right].hash, FALSE>>)
                       ELSE IF hit = "right"
                       THEN Append(st.proof, <<st.heap[left].hash, TRUE>>)
                       ELSE st.proof
             index2 == IF hit = "no" THEN st.current_index ELSE i \div 2
             parent == MerkleNode(st.heap, <<>>, left, right, FALSE)
             heap2  == Append(st.heap, parent)
         IN  proof_pairs([heap |-> heap2,
                          next_level |-> Append(st.next_level, Len(heap2)),
                          proof |-> proof2,
                          current_index |-> index2],
                         current_level, i + 2)

\* The while loop of get_proof.
RECURSIVE proof_levels(_, _)
proof_levels(st, current_level) ==
    IF Len(current_level) > 1
    THEN LET r == proof_pairs([st EXCEPT !.next_level = <<>>],
                              current_level, 0)
         IN  proof_levels(r, r.next_level)
    ELSE st

\* get_proof with the range check written > instead of >=.
get_proof_off_by_one(heap, leafRefs, data_index) ==
    IF data_index < 0 \/ data_index > Len(leafRefs)
    THEN [raised |-> "IndexError", proof |-> <<>>, hashes |-> 0]
    ELSE LET r == proof_levels([heap |-> heap, next_level |-> <<>>,
                                proof |-> <<>>,
                                current_index |-> data_index], leafRefs)
         IN  [raised |-> "", proof |-> r.proof,
              hashes |-> Len(r.heap) - Len(heap)]

get_proof(heap, leafRefs, data_index) ==
    IF data_index < 0 \/ data_index >= Len(leafRefs)
    THEN [raised |-> "IndexError", proof |-> <<>>, hashes |-> 0]
    ELSE LET r == proof_levels([heap |-> heap, next_level |-> <<>>,
                                proof |-> <<>>,
                                current_index |-> data_index], leafRefs)
         IN  [raised |-> "", proof |-> r.proof,
              hashes |-> Len(r.heap) - Len(heap)]

\* -------------------------------------------------------- verify_proof
\* verify_proof's loop with the two sides exchanged.
RECURSIVE verify_steps_swapped(_, _, _)
verify_steps_swapped(current_hash, proof, k) ==
    IF k > Len(proof)
    THEN current_hash
    ELSE LET sibling_hash == proof[k][1]
             is_left      == proof[k][2]
             combined     == IF is_left
                             THEN current_hash \o sibling_hash
                             ELSE sibling_hash \o current_hash
         IN  verify_steps_swapped(sha256_hex(combined), proof, k + 1)

\* verify_proof's loop ignoring is_left: the sibling always on the right.
RECURSIVE verify_steps_no_flag(_, _, _)
verify_steps_no_flag(current_hash, proof, k) ==
    IF k > Len(proof)
    THEN current_hash
    ELSE LET sibling_hash == proof[k][1]
             combined     == current_hash \o sibling_hash
         IN  verify_steps_no_flag(sha256_hex(combined), proof, k + 1)

RECURSIVE verify_steps(_, _, _)
verify_steps(current_hash, proof, k) ==
    IF k > Len(proof)
    THEN current_hash
    ELSE LET sibling_hash == proof[k][1]
             is_left      == proof[k][2]
             combined     == IF is_left
                             THEN sibling_hash \o current_hash
                             ELSE current_hash \o sibling_hash
         IN  verify_steps(sha256_hex(combined), proof, k + 1)

\* verify_proof hashing the tree's own block self.data_blocks[data_index]
\* instead of the data argument.
verify_proof_own_block(data, data_index, proof, root_hash) ==
    LET own == IF data_index >= 0 /\ data_index < Len(data_blocks)
               THEN data_blocks[data_index + 1]
               ELSE data_blocks[Len(data_blocks)]
    IN  verify_steps(sha256_hex(own), proof, 1) = root_hash

verify_proof(data, data_index, proof, root_hash) ==
    verify_steps(sha256_hex(data), proof, 1) = root_hash

\* ------------------------------------------------------ get_statistics
RECURSIVE ceil_log2_from(_, _, _)
ceil_log2_from(n, h, pow) ==
    IF pow >= n THEN h ELSE ceil_log2_from(n, h + 1, 2 * pow)

\* math.ceil(math.log2(n)) for n >= 1
ceil_log2(n) == ceil_log2_from(n, 0, 1)

\* get_statistics without the single-leaf case.
get_statistics_no_floor(leafRefs) ==
    LET num_leaves  == Len(leafRefs)
        tree_height == ceil_log2(num_leaves)
    IN  [num_leaves |-> num_leaves, tree_height |-> tree_height,
         proof_size |-> tree_height]

get_statistics(leafRefs) ==
    LET num_leaves  == Len(leafRefs)
        tree_height == IF num_leaves > 1 THEN ceil_log2(num_leaves) ELSE 1
    IN  [num_leaves |-> num_leaves, tree_height |-> tree_height,
         proof_size |-> tree_height]

\* ------------------------------------------------------------ __init__
\* __init__ without the emptiness check: build_tree then fails on
\* current_level[0] of an empty level.
MerkleTree_init_no_check(blocks) ==
    IF Len(blocks) = 0
    THEN [raised |-> "IndexError", data_blocks |-> <<>>, nodes |-> <<>>,
          leaves |-> <<>>, root |-> NoNode, rounds |-> 0, hashes |-> 0]
    ELSE LET t == build_tree(blocks)
         IN  [raised |-> "", data_blocks |-> blocks, nodes |-> t.nodes,
              leaves |-> t.leaves, root |-> t.root, rounds |-> t.rounds,
              hashes |-> t.hashes]

MerkleTree_init(blocks) ==
    IF Len(blocks) = 0
    THEN [raised |-> "ValueError", data_blocks |-> <<>>, nodes |-> <<>>,
          leaves |-> <<>>, root |-> NoNode, rounds |-> 0, hashes |-> 0]
    ELSE LET t == build_tree(blocks)
         IN  [raised |-> "", data_blocks |-> blocks, nodes |-> t.nodes,
              leaves |-> t.leaves, root |-> t.root, rounds |-> t.rounds,
              hashes |-> t.hashes]

\* ------------------------------------------------------ state tuples
tree == <<arg_blocks, phase, data_blocks, nodes, leaves, root, build_rounds>>
held == <<proof_index, held_proof>>
verifyRegs == <<v_data, v_index, v_proof, v_root, v_valid>>
vars == <<arg_blocks, phase, data_blocks, nodes, leaves, root, build_rounds,
          op, exception, hashes, proof_index, held_proof,
          v_data, v_index, v_proof, v_root, v_valid, ret_hash, stats>>

\* ------------------------------------------------------------ inputs
Blocks == {Str("a"), Str("b")}

RECURSIVE SeqsUpTo(_, _)
SeqsUpTo(S, n) ==
    IF n = 0 THEN {<<>>}
    ELSE LET shorter == SeqsUpTo(S, n - 1)
         IN  shorter \cup {Append(s, x) : s \in shorter, x \in S}

\* The lists a tree is constructed from, the empty list included.
Inputs == SeqsUpTo(Blocks, MaxBlocks)

\* Data handed to verify_proof: the blocks, a block no tree holds, and the
\* 128 hex characters of two leaf digests.
PairText == calculate_hash(Str("a")) \o calculate_hash(Str("b"))
VerifyData == Blocks \cup {Str("c"), PairText}

RootHash == nodes[root].hash

\* Digests a caller may put in place of a sibling hash or of the root.
HashPool ==
    {calculate_hash(d) : d \in VerifyData}
        \cup {nodes[k].hash : k \in 1..Len(nodes)}

ReplaceHash(p, k, h) == [p EXCEPT ![k] = <<h, p[k][2]>>]
FlipFlag(p, k) == [p EXCEPT ![k] = <<p[k][1], ~p[k][2]>>]

\* Proofs a caller writes without the tree's help.
ForgedProofs ==
    {<<>>} \cup {<< <<calculate_hash(d), f>> >> : d \in VerifyData,
                                                   f \in BOOLEAN}

\* The caller holds a proof when the last get_proof returned one.
HoldsProof == proof_index >= 0 /\ proof_index < Len(data_blocks)

\* Calls <<data, data_index, proof, root_hash>> of verify_proof with the
\* held proof as returned: any data, either index argument.
PlainCalls ==
    IF ~HoldsProof THEN {}
    ELSE {<<x, j, held_proof, RootHash>> :
            x \in VerifyData, j \in {proof_index, -1}}

\* Calls with the held proof and exactly one of sibling hash, side flag or
\* root changed.
TamperedCalls ==
    IF ~HoldsProof THEN {}
    ELSE LET d == data_blocks[proof_index + 1]
             i == proof_index
         IN  {<<d, i, ReplaceHash(held_proof, k, h), RootHash>> :
                 k \in 1..Len(held_proof), h \in HashPool}
                 \cup {<<d, i, FlipFlag(held_proof, k), RootHash>> :
                          k \in 1..Len(held_proof)}
                 \cup {<<d, i, held_proof, r>> : r \in HashPool}

\* Calls with a forged proof against the tree's root.
ForgedCalls ==
    {<<x, j, p, RootHash>> : x \in VerifyData, j \in {0, -1},
                             p \in ForgedProofs}

\* Calls with no proof at all.
BareCalls == {<<x, -1, <<>>, RootHash>> : x \in VerifyData}

NoStats == [num_leaves |-> 0, tree_height |-> 0, proof_size |-> 0]

ResetVerify ==
    /\ v_data' = <<>> /\ v_index' = -1 /\ v_proof' = <<>>
    /\ v_root' = <<>> /\ v_valid' = FALSE
ResetHeld == proof_index' = -1 /\ held_proof' = <<>>

\* ------------------------------------------------------------ actions
Init ==
    /\ arg_blocks = <<>>
    /\ phase = "new" /\ data_blocks = <<>> /\ nodes = <<>> /\ leaves = <<>>
    /\ root = NoNode /\ build_rounds = 0
    /\ op = "" /\ exception = "" /\ hashes = 0
    /\ proof_index = -1 /\ held_proof = <<>>
    /\ v_data = <<>> /\ v_index = -1 /\ v_proof = <<>> /\ v_root = <<>>
    /\ v_valid = FALSE
    /\ ret_hash = None /\ stats = NoStats

\* tree = MerkleTree(blocks)
Construct(blocks) ==
    /\ phase = "new"
    /\ LET r == MerkleTree_init(blocks)
       IN  /\ phase' = IF r.raised = "" THEN "built" ELSE "failed"
           /\ data_blocks' = r.data_blocks
           /\ nodes' = r.nodes
           /\ leaves' = r.leaves
           /\ root' = r.root
           /\ build_rounds' = r.rounds
           /\ exception' = r.raised
           /\ hashes' = r.hashes
    /\ op' = "__init__"
    /\ arg_blocks' = blocks
    /\ UNCHANGED <<held, verifyRegs, ret_hash, stats>>

\* tree.get_root_hash()
GetRootHash ==
    /\ phase = "built"
    /\ op' = "get_root_hash" /\ exception' = "" /\ hashes' = 0
    /\ ret_hash' = get_root_hash(nodes, root)
    /\ stats' = NoStats
    /\ ResetHeld /\ ResetVerify
    /\ UNCHANGED tree

\* p = tree.get_proof(i)
GetProof(i) ==
    /\ phase = "built"
    /\ LET r == get_proof(nodes, leaves, i)
       IN  /\ exception' = r.raised
           /\ held_proof' = r.proof
           /\ hashes' = r.hashes
    /\ op' = "get_proof"
    /\ proof_index' = i
    /\ ret_hash' = None /\ stats' = NoStats
    /\ ResetVerify
    /\ UNCHANGED tree

\* tree.verify_proof(data, idx, p, r)
VerifyProof(data, idx, p, r) ==
    /\ phase = "built"
    /\ op' = "verify_proof" /\ exception' = ""
    /\ hashes' = 1 + Len(p)
    /\ v_data' = data /\ v_index' = idx /\ v_proof' = p /\ v_root' = r
    /\ v_valid' = verify_proof(data, idx, p, r)
    /\ ret_hash' = None /\ stats' = NoStats
    /\ UNCHANGED <<tree, held>>

\* tree.get_statistics()
GetStatistics ==
    /\ phase = "built"
    /\ op' = "get_statistics" /\ exception' = "" /\ hashes' = 0
    /\ stats' = get_statistics(leaves)
    /\ ret_hash' = None
    /\ ResetHeld /\ ResetVerify
    /\ UNCHANGED tree

\* Any sequence of calls on one tree.
Next ==
    \/ \E blocks \in Inputs : Construct(blocks)
    \/ GetRootHash
    \/ \E i \in -1..Len(leaves) : GetProof(i)
    \/ /\ phase = "built"
       /\ \E c \in PlainCalls \cup BareCalls :
             VerifyProof(c[1], c[2], c[3], c[4])
    \/ GetStatistics

Spec == Init /\ [][Next]_vars

\* One caller: build a tree, ask for one proof, verify once, with the
\* arguments of verify_proof drawn from every kind of call above.
NextCaller ==
    \/ \E blocks \in Inputs : Construct(blocks)
    \/ /\ op = "__init__"
       /\ \E i \in -1..Len(leaves) : GetProof(i)
    \/ /\ op = "get_proof"
       /\ \E c \in PlainCalls \cup TamperedCalls \cup ForgedCalls :
             VerifyProof(c[1], c[2], c[3], c[4])

SpecCaller == Init /\ [][NextCaller]_vars

\* ------------------------------------------ reference definitions
\* What the claims compare the code's results with: levels, node hashes and
\* proofs given in closed form by position, with no loop over a level.
RECURSIVE Pow2(_)
Pow2(k) == IF k = 0 THEN 1 ELSE 2 * Pow2(k - 1)

\* The least h with 2^h >= n.
RefCeilLog2(n) ==
    CHOOSE h \in 0..n : Pow2(h) >= n /\ \A g \in 0..(h - 1) : Pow2(g) < n

\* Number of nodes of level k (level 0 holds the n leaves).
RECURSIVE RefLevelSize(_, _)
RefLevelSize(n, k) ==
    IF k = 0 THEN n ELSE (RefLevelSize(n, k - 1) + 1) \div 2

\* Position of the pair partner of position pos in a level of sz nodes; a
\* lone trailing node is its own partner.
RefPartner(pos, sz) ==
    IF pos % 2 = 1 THEN pos - 1
    ELSE IF pos + 1 < sz THEN pos + 1 ELSE pos

\* Hash of the node at (0-based) position j of level k.
RECURSIVE RefNode(_, _, _)
RefNode(blocks, k, j) ==
    IF k = 0
    THEN calculate_hash(blocks[j + 1])
    ELSE LET sz == RefLevelSize(Len(blocks), k - 1)
         IN  calculate_hash(RefNode(blocks, k - 1, 2 * j)
                            \o RefNode(blocks, k - 1,
                                       RefPartner(2 * j, sz)))

RefRoot(blocks) == RefNode(blocks, RefCeilLog2(Len(blocks)), 0)

RefProof(blocks, i) ==
    [k \in 1..RefCeilLog2(Len(blocks)) |->
        LET pos == i \div Pow2(k - 1)
            sz  == RefLevelSize(Len(blocks), k - 1)
        IN  <<RefNode(blocks, k - 1, RefPartner(pos, sz)), pos % 2 = 1>>]

\* The last call was verify_proof, made by a caller holding get_proof(i).
Verified == op = "verify_proof" /\ HoldsProof
HeldBlock == data_blocks[proof_index + 1]

\* q is p with the sibling hash of step k, and nothing else, changed.
HashChangedAt(p, q, k) ==
    /\ Len(q) = Len(p)
    /\ k \in 1..Len(p)
    /\ q[k][1] # p[k][1]
    /\ q[k][2] = p[k][2]
    /\ \A j \in 1..Len(p) : j # k => q[j] = p[j]

\* q is p with the side flag of step k, and nothing else, flipped.
FlagFlippedAt(p, q, k) ==
    /\ Len(q) = Len(p)
    /\ k \in 1..Len(p)
    /\ q[k][1] = p[k][1]
    /\ q[k][2] = ~p[k][2]
    /\ \A j \in 1..Len(p) : j # k => q[j] = p[j]

\* ---------------------------------------------------------------- C1
\* C1: proof round-trip.  Whenever verify_proof is called with the block
\* D[i], the proof get_proof(i) returned and the tree's root hash, it
\* returns true, whatever index argument is passed.
C1_RoundTrip ==
    (Verified /\ v_data = HeldBlock /\ v_proof = held_proof /\ v_root = RootHash)
        => v_valid = TRUE

\* A round trip for the self-paired last leaf of a three-leaf tree with a
\* repeated block.
C1_Witness ==
    /\ Verified /\ v_data = HeldBlock /\ v_proof = held_proof /\ v_root = RootHash
    /\ Len(data_blocks) = 3 /\ proof_index = 2
    /\ data_blocks[1] = data_blocks[3]
    /\ v_valid

\* ---------------------------------------------------------------- C2
\* C2: tamper detection of values.  With D[i], get_proof(i) and the root
\* hash, changing exactly one of them makes verify_proof return false: the
\* data replaced by a different string, the sibling hash of one step
\* replaced by a different digest, or the root replaced by a different
\* digest.
C2_ValueTamper ==
    Verified =>
        /\ (v_data # HeldBlock /\ v_proof = held_proof /\ v_root = RootHash)
              => v_valid = FALSE
        /\ (/\ v_data = HeldBlock /\ v_root = RootHash
            /\ \E k \in 1..Len(held_proof) : HashChangedAt(held_proof, v_proof, k))
              => v_valid = FALSE
        /\ (v_data = HeldBlock /\ v_proof = held_proof /\ v_root # RootHash)
              => v_valid = FALSE

\* The second sibling hash of a proof replaced by the hash the first step
\* produces, and the call rejected.
C2_Witness ==
    /\ Verified /\ v_data = HeldBlock /\ v_root = RootHash
    /\ Len(held_proof) >= 2
    /\ HashChangedAt(held_proof, v_proof, 2)
    /\ v_proof[2][1] \in {nodes[k].hash : k \in 1..Len(nodes)}
    /\ v_valid = FALSE

\* The data replaced by the text of two leaf digests, and the call rejected.
C2_WitnessData ==
    /\ Verified /\ v_data = PairText /\ v_proof = held_proof /\ v_root = RootHash
    /\ Len(held_proof) >= 1 /\ v_valid = FALSE

\* The root replaced by the hash of another node, and the call rejected.
C2_WitnessRoot ==
    /\ Verified /\ v_data = HeldBlock /\ v_proof = held_proof
    /\ v_root \in {nodes[k].hash : k \in 1..Len(nodes)} \ {RootHash}
    /\ v_valid = FALSE

\* ---------------------------------------------------------------- C3
\* C3 as claimed: flipping the side flag of any one step of get_proof(i),
\* all else kept, makes verify_proof return false.
C3_FlagTamper_Original ==
    (/\ Verified /\ v_data = HeldBlock /\ v_root = RootHash
     /\ \E k \in 1..Len(held_proof) : FlagFlippedAt(held_proof, v_proof, k))
        => v_valid = FALSE

\* C3 as amended: flipping the side flag of step k makes verify_proof return
\* false exactly when the sibling hash of that step differs from the hash of
\* the proven node at that level; when they are equal (a lone trailing node
\* paired with itself, or two equal subtrees of repeated blocks) the flipped
\* proof is still accepted.
C3_FlagTamper ==
    \A k \in 1..Len(held_proof) :
        (/\ Verified /\ v_data = HeldBlock /\ v_root = RootHash
         /\ FlagFlippedAt(held_proof, v_proof, k))
            => (v_valid = FALSE
                  <=> held_proof[k][1] # RefNode(data_blocks, k - 1,
                                            proof_index \div Pow2(k - 1)))

\* A flipped flag that is detected: the second step of the last leaf of a
\* three-leaf tree.
C3_Witness ==
    /\ Verified /\ v_data = HeldBlock /\ v_root = RootHash
    /\ Len(data_blocks) = 3 /\ proof_index = 2
    /\ FlagFlippedAt(held_proof, v_proof, 2)
    /\ v_valid = FALSE

\* A flipped flag that is accepted: the first, self-paired step of the
\* last leaf of a three-leaf tree of distinct neighbours.
C3_WitnessAccepted ==
    /\ Verified /\ v_data = HeldBlock /\ v_root = RootHash
    /\ Len(data_blocks) = 3 /\ proof_index = 2
    /\ data_blocks[2] # data_blocks[3]
    /\ FlagFlippedAt(held_proof, v_proof, 1)
    /\ v_valid = TRUE

\* ---------------------------------------------------------------- C4
OtherRoot(blocks) ==
    LET t == MerkleTree_init(blocks) IN get_root_hash(t.nodes, t.root)

\* C4 as claimed: the root hash of the tree differs from the root hash of
\* the tree of every other non-empty list.
C4_RootSensitivity_Original ==
    op = "get_root_hash" =>
        \A other \in Inputs :
            (Len(other) > 0 /\ other # data_blocks)
                => OtherRoot(other) # ret_hash

\* C4 as amended: the root hash of the tree differs from the root hash of
\* the tree of every other list of the same length (lists of different
\* lengths can share a root).
C4_RootSensitivity ==
    op = "get_root_hash" =>
        \A other \in Inputs :
            (Len(other) = Len(data_blocks) /\ other # data_blocks)
                => OtherRoot(other) # ret_hash

\* The root hash of a three-block list holding both blocks, which has
\* reorderings and one-block changes of the same length to differ from.
C4_Witness ==
    /\ op = "get_root_hash"
    /\ ret_hash = Some(RootHash)
    /\ Len(data_blocks) = 3
    /\ data_blocks[1] # data_blocks[2]
    /\ \E other \in Inputs :
          /\ Len(other) = 3 /\ other # data_blocks
          /\ other[1] = data_blocks[2] /\ other[2] = data_blocks[1]

\* ---------------------------------------------------------------- C5
\* C5 as claimed: the number of steps of every returned proof equals the
\* proof_size that get_statistics reports.
C5_ProofLength_Original ==
    (op = "get_proof" /\ exception = "")
        => Len(held_proof) = get_statistics(leaves).proof_size

\* C5 as amended: for n >= 2 blocks the number of steps of every returned
\* proof equals the reported proof_size = tree_height = ceil(log2(n)); for
\* n = 1 the proof has no step while the reported height and proof_size are
\* 1.  The reported height is max(1, ceil(log2(n))): 1, 1, 2, 2, 3, 4 for
\* 1, 2, 3, 4, 5, 10 leaves.
C5_ProofLength ==
    /\ (op = "get_proof" /\ exception = "")
          => Len(held_proof) = IF Len(leaves) = 1 THEN 0
                          ELSE get_statistics(leaves).proof_size
    /\ op = "get_statistics"
          => /\ stats.num_leaves = Len(data_blocks)
             /\ stats.tree_height =
                  IF RefCeilLog2(Len(leaves)) > 1
                  THEN RefCeilLog2(Len(leaves)) ELSE 1
             /\ stats.proof_size = stats.tree_height
             /\ [n \in {1, 2, 3, 4, 5, 10} |->
                   get_statistics([k \in 1..n |-> k]).tree_height]
                  = (1 :> 1) @@ (2 :> 1) @@ (3 :> 2) @@ (4 :> 2)
                      @@ (5 :> 3) @@ (10 :> 4)

\* A proof of a five-leaf tree, three steps long.
C5_Witness ==
    /\ op = "get_proof" /\ exception = ""
    /\ Len(leaves) = 5 /\ Len(held_proof) = 3
    /\ get_statistics(leaves).proof_size = 3

\* Statistics of a tree of height three.
C5_WitnessStats == op = "get_statistics" /\ stats.tree_height = 3

\* ---------------------------------------------------------------- C6
\* Nodes reachable from node r by left and right references.
RECURSIVE Reachable(_)
Reachable(r) ==
    IF r = NoNode THEN {}
    ELSE {r} \cup Reachable(nodes[r].left) \cup Reachable(nodes[r].right)

\* C6: construction result.  After MerkleTree(D) there is one leaf per block
\* in input order with hash = H(block); every internal node reachable from
\* the root has hash = H(left.hash + right.hash); the root hash is the one
\* obtained by pairing positions (0,1), (2,3), ... of each level, a lone
\* trailing node with itself, after exactly ceil(log2(n)) rounds; for n = 1
\* it is H(D[0]) and no round is made.
C6_Construction ==
    phase = "built" =>
        /\ data_blocks = arg_blocks
        /\ Len(leaves) = Len(data_blocks)
        /\ \A k \in 1..Len(leaves) :
              /\ nodes[leaves[k]].is_leaf
              /\ nodes[leaves[k]].data = Some(data_blocks[k])
              /\ nodes[leaves[k]].hash = sha256_hex(data_blocks[k])
        /\ \A r \in Reachable(root) :
              ~nodes[r].is_leaf =>
                  /\ nodes[r].left # NoNode /\ nodes[r].right # NoNode
                  /\ nodes[r].hash =
                       sha256_hex(nodes[nodes[r].left].hash
                                    \o nodes[nodes[r].right].hash)
        /\ \A k \in 1..Len(leaves) : leaves[k] \in Reachable(root)
        /\ RootHash = RefRoot(data_blocks)
        /\ build_rounds = RefCeilLog2(Len(data_blocks))
        /\ Len(data_blocks) = 1
              => (RootHash = sha256_hex(data_blocks[1]) /\ build_rounds = 0)

\* A five-block tree built in three rounds, a lone node at two levels.
C6_Witness ==
    /\ phase = "built" /\ op = "__init__"
    /\ Len(data_blocks) = 5 /\ build_rounds = 3
    /\ data_blocks[4] # data_blocks[5]

\* ---------------------------------------------------------------- C7
\* C7: proof content.  get_proof(i) has one step per level below the root,
\* and step k (from 0) is the hash of the pair partner of position
\* floor(i / 2^k) of level k with sibling_is_left true exactly when that
\* position is odd; a lone trailing node's step is (its own hash, false).
C7_ProofContent ==
    (op = "get_proof" /\ exception = "")
        => /\ held_proof = RefProof(data_blocks, proof_index)
           /\ Len(held_proof) = RefCeilLog2(Len(data_blocks))

\* The proof of index 2 of [x, y, z]: [(H(z), false), (N0, true)].
C7_Witness ==
    /\ op = "get_proof" /\ exception = ""
    /\ Len(data_blocks) = 3 /\ proof_index = 2
    /\ data_blocks[1] # data_blocks[2]
    /\ held_proof = << <<sha256_hex(data_blocks[3]), FALSE>>,
                  <<sha256_hex(sha256_hex(data_blocks[1])
                                 \o sha256_hex(data_blocks[2])), TRUE>> >>

\* The proof of index 1 of a four-block list: [(H(D0), true), (N1, false)].
C7_WitnessFour ==
    /\ op = "get_proof" /\ exception = ""
    /\ Len(data_blocks) = 4 /\ proof_index = 1
    /\ held_proof = << <<sha256_hex(data_blocks[1]), TRUE>>,
                  <<sha256_hex(sha256_hex(data_blocks[3])
                                 \o sha256_hex(data_blocks[4])), FALSE>> >>

\* ---------------------------------------------------------------- C8
\* C8: empty input is rejected.  MerkleTree([]) raises ValueError before
\* any hash is computed and leaves no tree (no leaves, no root); every
\* non-empty list is constructed without error and has a root.
C8_EmptyRejected ==
    op = "__init__" =>
        /\ (arg_blocks = <<>>) <=> (phase = "failed")
        /\ phase = "failed"
              => /\ exception = "ValueError"
                 /\ hashes = 0
                 /\ leaves = <<>> /\ nodes = <<>> /\ root = NoNode
        /\ phase # "failed"
              => /\ phase = "built"
                 /\ exception = ""
                 /\ root # NoNode
                 /\ get_root_hash(nodes, root) # None

\* The constructor called with the empty list.
C8_Witness == op = "__init__" /\ arg_blocks = <<>> /\ phase = "failed"

\* The constructor called with one block.
C8_WitnessBuilt == op = "__init__" /\ Len(arg_blocks) = 1 /\ phase = "built"

\* ---------------------------------------------------------------- C9
\* What C9 says of a state: the last get_proof, and the tree as built.
C9_State ==
    /\ op = "get_proof"
          => /\ (exception = "IndexError")
                   <=> (proof_index < 0 \/ proof_index >= Len(leaves))
             /\ exception \in {"", "IndexError"}
             /\ exception = "IndexError" => (hashes = 0 /\ held_proof = <<>>)
    /\ phase = "built"
          => /\ Len(leaves) = Len(arg_blocks)
             /\ \A k \in 1..Len(leaves) :
                   nodes[leaves[k]].hash = sha256_hex(arg_blocks[k])
             /\ RootHash = RefRoot(arg_blocks)

\* What C9 says of a step: a built tree is not changed.
C9_Frozen ==
    phase = "built"
        => UNCHANGED <<phase, data_blocks, nodes, leaves, root>>

\* C9: an out-of-range index is rejected without effect.  get_proof(i)
\* raises IndexError exactly when i < 0 or i >= leaf_count, then computes
\* no hash and returns no proof; and no call made after construction
\* changes the tree's blocks, nodes, leaves or root.
C9_IndexRejected == [](C9_State) /\ [][C9_Frozen]_vars

\* get_proof(leaf_count) on a three-leaf tree, just rejected.
C9_Witness ==
    /\ op = "get_proof" /\ exception = "IndexError"
    /\ Len(leaves) = 3 /\ proof_index = 3
    /\ RootHash = RefRoot(arg_blocks)

\* get_proof(-1), rejected.
C9_WitnessNegative ==
    op = "get_proof" /\ exception = "IndexError" /\ proof_index = -1

\* --------------------------------------------------------------- C10
\* C10: membership soundness.  verify_proof called with the tree's root hash
\* returns true only for data that is one of the tree's blocks.
C10_Membership ==
    (op = "verify_proof" /\ v_root = RootHash /\ v_valid = TRUE)
        => \E j \in 1..Len(data_blocks) : v_data = data_blocks[j]

====
